---- MODULE Spec2Model ----
(***************************************************************************)
(* The data-cleaning pipeline of the CIA statistics dashboard:             *)
(*   data_cleaner / clean_outliers / load_and_clean_separate               *)
(*   (src/clean_data.py, the per-table variant) and                        *)
(*   load_clean_data.data_cleaner / clean_outliers                         *)
(*   (src/Clean_Data.py, the merged variant).                              *)
(*                                                                         *)
(* A cell text is a sequence of one-character strings, so that the Python  *)
(* str.replace / "in" / float() operations are computed character by       *)
(* character.  A number is a decimal m * 10^e in normal form (m not        *)
(* divisible by 10, or m = 0 and e = 0): decimal literals, the scaling by  *)
(* 1,000,000 and the percentage product are exact in this form.  Binary    *)
(* rounding error of the IEEE doubles is not represented.                  *)
(***************************************************************************)
EXTENDS Integers, Sequences, FiniteSets, TLC

\* -------------------------------------------------------------------------
\* Cell values: one record shape for every kind of value.
\*   k = "str"  a Python str, text in s
\*   k = "num"  a finite number m * 10^e
\*   k = "inf"  an infinite float, sign in m
\*   k = "nan"  the missing marker (NaN)
\* -------------------------------------------------------------------------
Str(s) == [k |-> "str", s |-> s, m |-> 0, e |-> 0]

NaN == [k |-> "nan", s |-> <<>>, m |-> 0, e |-> 0]

Inf(sgn) == [k |-> "inf", s |-> <<>>, m |-> sgn, e |-> 0]

RECURSIVE NormM(_, _)
NormM(m, e) == IF m = 0 THEN 0 ELSE IF m % 10 = 0 THEN NormM(m \div 10, e + 1) ELSE m

RECURSIVE NormE(_, _)
NormE(m, e) == IF m = 0 THEN 0 ELSE IF m % 10 = 0 THEN NormE(m \div 10, e + 1) ELSE e

Num(m, e) == [k |-> "num", s |-> <<>>, m |-> NormM(m, e), e |-> NormE(m, e)]

Err == [k |-> "err", s |-> <<>>, m |-> 0, e |-> 0]

IsMissing(v) == v.k = "nan"

IsFiniteFloat(v) == v.k = "num"

\* -------------------------------------------------------------------------
\* Python str primitives on character sequences.
\* -------------------------------------------------------------------------
\* s[i : i + len(p)] == p
MatchAt(s, p, i) ==
    /\ i + Len(p) - 1 <= Len(s)
    /\ \A j \in 1..Len(p) : s[i + j - 1] = p[j]

\* p in s
Contains(s, p) == \E i \in 1..Len(s) : MatchAt(s, p, i)

\* the leftmost non-overlapping occurrences of p deleted in one pass
RECURSIVE RemoveFrom(_, _)
RemoveFrom(s, p) ==
    IF Len(s) < Len(p) THEN s
    ELSE IF MatchAt(s, p, 1) THEN RemoveFrom(SubSeq(s, Len(p) + 1, Len(s)), p)
    ELSE <<Head(s)>> \o RemoveFrom(Tail(s), p)

\* s.replace(p, ""): a text without an occurrence of p is returned as it is
Remove(s, p) == IF Contains(s, p) THEN RemoveFrom(s, p) ELSE s

RECURSIVE LStrip(_)
LStrip(s) == IF s # <<>> /\ Head(s) = " " THEN LStrip(Tail(s)) ELSE s

RECURSIVE RStrip(_)
RStrip(s) == IF s # <<>> /\ s[Len(s)] = " " THEN RStrip(SubSeq(s, 1, Len(s) - 1)) ELSE s

UpperCase == <<"A","B","C","D","E","F","G","H","I","J","K","L","M",
               "N","O","P","Q","R","S","T","U","V","W","X","Y","Z">>

LowerCase == <<"a","b","c","d","e","f","g","h","i","j","k","l","m",
               "n","o","p","q","r","s","t","u","v","w","x","y","z">>

Lower(c) == IF \E i \in 1..26 : UpperCase[i] = c
            THEN LowerCase[CHOOSE i \in 1..26 : UpperCase[i] = c]
            ELSE c

LowerSeq(s) == [i \in 1..Len(s) |-> Lower(s[i])]

Digits == <<"0","1","2","3","4","5","6","7","8","9">>

IsDigit(c) == \E i \in 1..10 : Digits[i] = c

DigitVal(c) == (CHOOSE i \in 1..10 : Digits[i] = c) - 1

AllDigits(s) == \A i \in 1..Len(s) : IsDigit(s[i])

RECURSIVE DigitsToInt(_)
DigitsToInt(s) ==
    IF s = <<>> THEN 0 ELSE 10 * DigitsToInt(SubSeq(s, 1, Len(s) - 1)) + DigitVal(s[Len(s)])

\* -------------------------------------------------------------------------
\* float(text): surrounding blanks are ignored, then an optional sign, then
\* either "inf" / "infinity" / "nan" in any letter case or a decimal literal
\* digits [. digits] with at least one digit.  Anything else is a
\* ValueError (Err).  Exponent and underscore forms cannot be spelled with
\* the characters of the modelled texts.
\* -------------------------------------------------------------------------
ParseUnsigned(s, sgn) ==
    LET low == LowerSeq(s)
        dots == {i \in 1..Len(s) : s[i] = "."}
    IN  IF low = <<"i","n","f">> \/ low = <<"i","n","f","i","n","i","t","y">> THEN Inf(sgn)
        ELSE IF low = <<"n","a","n">> THEN NaN
        ELSE IF s = <<>> THEN Err
        ELSE IF dots = {} THEN
            IF AllDigits(s) THEN Num(sgn * DigitsToInt(s), 0) ELSE Err
        ELSE IF Cardinality(dots) > 1 THEN Err
        ELSE LET d == CHOOSE i \in dots : TRUE
                 ip == SubSeq(s, 1, d - 1)
                 fp == SubSeq(s, d + 1, Len(s))
             IN  IF AllDigits(ip) /\ AllDigits(fp) /\ Len(ip) + Len(fp) > 0
                 THEN Num(sgn * DigitsToInt(ip \o fp), 0 - Len(fp))
                 ELSE Err

ParseFloat(s) ==
    LET t == RStrip(LStrip(s))
    IN  IF t = <<>> THEN Err
        ELSE IF Head(t) = "-" THEN ParseUnsigned(Tail(t), -1)
        ELSE IF Head(t) = "+" THEN ParseUnsigned(Tail(t), 1)
        ELSE ParseUnsigned(t, 1)

\* float(val) for any cell value: a str is parsed, a float is itself
Float(v) == IF v.k = "str" THEN ParseFloat(v.s) ELSE v

RECURSIVE Pow10(_)
Pow10(n) == IF n = 0 THEN 1 ELSE 10 * Pow10(n - 1)

\* round half up instead of half to even
RoundHalfEven_HalfUp(m, e) ==
    IF e >= 0 THEN Num(m, e)
    ELSE LET d == Pow10(0 - e)
             q == m \div d
             r == m % d
         IN  IF 2 * r < d THEN Num(q, 0) ELSE Num(q + 1, 0)

\* round(x) of Python 3 for a finite decimal x = m * 10^e: nearest integer,
\* ties to the even one
RoundHalfEven(m, e) ==
    IF e >= 0 THEN Num(m, e)
    ELSE LET d == Pow10(0 - e)
             q == m \div d
             r == m % d
         IN  IF 2 * r < d THEN Num(q, 0)
             ELSE IF 2 * r > d THEN Num(q + 1, 0)
             ELSE IF q % 2 = 0 THEN Num(q, 0) ELSE Num(q + 1, 0)

\* float(v) * 1_000_000
TimesMillion(x) == IF x.k = "num" THEN Num(x.m, x.e + 6) ELSE x

\* round(v * 0.01 * float(pop)): round() raises on NaN (ValueError) and on an
\* infinity (OverflowError); 0 * inf is NaN
RoundPercentOf(x, p) ==
    IF x.k = "num" /\ p.k = "num" THEN RoundHalfEven(x.m * p.m, x.e + p.e - 2) ELSE Err

\* -------------------------------------------------------------------------
\* The literals of data_cleaner.
\* -------------------------------------------------------------------------
\* the list without v.replace(" m", "")
StripPatterns_NoMetre ==
    << <<"%">>,
       <<" ", "s", "q", " ", "k", "m">>,
       <<" ", "k", "m">>,
       <<",">> >>

\* the list without v.replace(",", "")
StripPatterns_NoComma ==
    << <<"%">>,
       <<" ", "s", "q", " ", "k", "m">>,
       <<" ", "k", "m">>,
       <<" ", "m">> >>

StripPatterns ==
    << <<"%">>,
       <<" ", "s", "q", " ", "k", "m">>,
       <<" ", "k", "m">>,
       <<" ", "m">>,
       <<",">> >>

Illion == <<"i", "l", "l", "i", "o", "n">>

PercentageTest == <<"(", "p", "e", "r", "c", "e", "n", "t", "a", "g", "e", ")">>

PercentageStrip == <<" ", "(", "p", "e", "r", "c", "e", "n", "t", "a", "g", "e", ")">>

Sentinels ==
    << <<"N", "E", "G", "L">>,
       <<"n", "e", "g", "l", "i", "g", "i", "b", "l", "e">>,
       <<"I", "l", "e", " ", "A", "m", "s", "t", "e", "r", "d", "a", "m">> >>

GovTypes ==
    << <<"D", "e", "m", "o", "c", "r", "a", "c", "y">>,
       <<"R", "e", "p", "u", "b", "l", "i", "c">>,
       <<"T", "h", "e", "o", "c", "r", "a", "c", "y">>,
       <<"M", "o", "n", "a", "r", "c", "h", "y">>,
       <<"C", "o", "m", "m", "u", "n", "i", "s", "t">>,
       <<"T", "e", "r", "r", "i", "t", "o", "r", "y">>,
       <<"O", "t", "h", "e", "r">> >>

\* the five v.replace(..., "") calls, applied in the order of the list
RECURSIVE StripAll(_, _)
StripAll(s, pats) ==
    IF pats = <<>> THEN s ELSE StripAll(Remove(s, Head(pats)), Tail(pats))

\* ' km' is stripped before ' sq km'
StripUnits_KmFirst(s) ==
    StripAll(s, <<StripPatterns[1], StripPatterns[3], StripPatterns[2],
                  StripPatterns[4], StripPatterns[5]>>)

StripUnits(s) == StripAll(s, StripPatterns)

IsSentinel(v) == \E i \in 1..Len(Sentinels) : Contains(v, Sentinels[i])

IsGovType(v) == \E i \in 1..Len(GovTypes) : Contains(v, GovTypes[i])

\* the last test of the chain that matches
GovCode_LastMatch(v) == (CHOOSE i \in 1..Len(GovTypes) :
                            /\ Contains(v, GovTypes[i])
                            /\ \A j \in (i + 1)..Len(GovTypes) : ~Contains(v, GovTypes[j])) - 1

\* the elif chain Democracy -> 0 ... Other -> 6: the first test that matches
GovCode(v) == (CHOOSE i \in 1..Len(GovTypes) :
                  /\ Contains(v, GovTypes[i])
                  /\ \A j \in 1..(i - 1) : ~Contains(v, GovTypes[j])) - 1

\* -------------------------------------------------------------------------
\* The body of the inner loop of data_cleaner for one cell.
\*   val      the cell value
\*   hasPop   "Total_Population" in df.columns
\*   pop      df["Total_Population"][idx] (read only when hasPop)
\*   variant  "clean_data" (per-table variant) or "Clean_Data" (merged)
\* The outcome names the branch that ran, whether it assigned df.loc[idx, i]
\* and the value assigned.  write = FALSE with branch # "null" is the
\* except path: the cell keeps its value.
\* -------------------------------------------------------------------------
Wrote(b, x) == [branch |-> b, write |-> TRUE, val |-> x, shown |-> NaN]

\* shown: the value of the local v when the except clause runs
Failed(b, v) == [branch |-> b, write |-> FALSE, val |-> NaN, shown |-> v]

Skipped == [branch |-> "null", write |-> FALSE, val |-> NaN, shown |-> NaN]

IllionBranch(v) ==
    LET w == Remove(v, Illion)
        x == ParseFloat(w)
    IN  IF x.k = "err" THEN Failed("illion", Str(w)) ELSE Wrote("illion", TimesMillion(x))

\* the Total_Population value used as it is, without float()
PercentageBranch_NoFloatOfPop(v, hasPop, pop) ==
    LET w == Remove(v, PercentageStrip)
        x == ParseFloat(w)
        p == IF hasPop /\ pop.k # "str" THEN pop ELSE Err
        r == IF p.k = "err" THEN Err ELSE RoundPercentOf(x, p)
    IN  IF x.k = "err" THEN Failed("percentage", Str(w))
        ELSE IF r.k = "err" THEN Failed("percentage", x)
        ELSE Wrote("percentage", r)

PercentageBranch(v, hasPop, pop) ==
    LET w == Remove(v, PercentageStrip)
        x == ParseFloat(w)
        p == IF hasPop THEN Float(pop) ELSE Err
        r == IF p.k = "err" THEN Err ELSE RoundPercentOf(x, p)
    IN  IF x.k = "err" THEN Failed("percentage", Str(w))
        ELSE IF r.k = "err" THEN Failed("percentage", x)
        ELSE Wrote("percentage", r)

DirectBranch(v) ==
    LET x == ParseFloat(v)
    IN  IF x.k = "err" THEN Failed("direct", Str(v)) ELSE Wrote("direct", x)

PercentageGuard(v, hasPop, variant) ==
    /\ Contains(v, PercentageTest)
    /\ (variant = "clean_data" => hasPop)

\* the sentinel test moved to the head of the chain
RepairStripped_SentinelFirst(v, hasPop, pop, variant) ==
    IF IsSentinel(v) THEN Wrote("sentinel", NaN)
    ELSE IF Contains(v, Illion) THEN IllionBranch(v)
    ELSE IF PercentageGuard(v, hasPop, variant) THEN PercentageBranch(v, hasPop, pop)
    ELSE IF IsGovType(v) THEN Wrote("gov", Num(GovCode(v), 0))
    ELSE DirectBranch(v)

\* the if / elif chain on the stripped text v
RepairStripped(v, hasPop, pop, variant) ==
    IF Contains(v, Illion) THEN IllionBranch(v)
    ELSE IF PercentageGuard(v, hasPop, variant) THEN PercentageBranch(v, hasPop, pop)
    ELSE IF IsSentinel(v) THEN Wrote("sentinel", NaN)
    ELSE IF IsGovType(v) THEN Wrote("gov", Num(GovCode(v), 0))
    ELSE DirectBranch(v)

\* the except block: the strip steps, then the chain
Repair(text, hasPop, pop, variant) == RepairStripped(StripUnits(text), hasPop, pop, variant)

\* the first try also scales by 1,000,000
Normalize_ScaledFloat(val, hasPop, pop, variant) ==
    IF IsMissing(val) THEN Skipped
    ELSE IF Float(val).k # "err" THEN Wrote("float", TimesMillion(Float(val)))
    ELSE Repair(val.s, hasPop, pop, variant)

\* a text goes to the strip steps without the first float() attempt
Normalize_NoFirstTry(val, hasPop, pop, variant) ==
    IF IsMissing(val) THEN Skipped
    ELSE IF val.k = "str" THEN Repair(val.s, hasPop, pop, variant)
    ELSE Wrote("float", Float(val))

\* the loop body without the pd.isnull test
Normalize_NoNullTest(val, hasPop, pop, variant) ==
    IF Float(val).k # "err" THEN Wrote("float", Float(val))
    ELSE Repair(val.s, hasPop, pop, variant)

Normalize(val, hasPop, pop, variant) ==
    IF IsMissing(val) THEN Skipped
    ELSE IF Float(val).k # "err" THEN Wrote("float", Float(val))
    ELSE Repair(val.s, hasPop, pop, variant)

\* the value of the cell after the loop body
AfterVisit(val, hasPop, pop, variant) ==
    LET o == Normalize(val, hasPop, pop, variant)
    IN  IF o.write THEN o.val ELSE val

\* -------------------------------------------------------------------------
\* Column conversion after the inner loop.
\* -------------------------------------------------------------------------
\* errors='ignore': text that does not parse stays
ToNumeric_Ignore(v) ==
    IF v.k = "str" THEN (IF ParseFloat(v.s).k = "err" THEN v ELSE ParseFloat(v.s)) ELSE v

\* pd.to_numeric(..., errors='coerce') on one element
ToNumeric(v) ==
    IF v.k = "str" THEN (IF ParseFloat(v.s).k = "err" THEN NaN ELSE ParseFloat(v.s)) ELSE v

\* Series.astype(float) raises ValueError on an element float() rejects
AstypeRaises(col) == \E idx \in DOMAIN col : Float(col[idx]).k = "err"

\* -------------------------------------------------------------------------
\* Tables.  columns is df.columns in order; df maps an index label to a row,
\* a row maps a column name to a cell value.
\* -------------------------------------------------------------------------
\* the exclusion list without "Capital"
ExcludeCols_NoCapital ==
    {"Country", "internet_country_code", "Fiscal_Year", "Geographic_Coordinates",
     "Capital_Coordinates"}

ExcludeCols ==
    {"Country", "internet_country_code", "Fiscal_Year", "Geographic_Coordinates",
     "Capital", "Capital_Coordinates"}

IsTarget(c) == c \notin ExcludeCols

\* columns = [col for col in df.columns if col not in exclude_cols]
TargetColumns(cols) == SelectSeq(cols, IsTarget)

ColSet(cols) == {cols[i] : i \in 1..Len(cols)}

EuropeanUnion == <<"E", "U", "R", "O", "P", "E", "A", "N", " ", "U", "N", "I", "O", "N">>

Tokelau == <<"T", "O", "K", "E", "L", "A", "U">>

\* clean_list of load_and_clean_separate / load_clean_data
CleanList ==
    << <<EuropeanUnion, "Birth_Rate">>,
       <<EuropeanUnion, "Death_Rate">>,
       <<EuropeanUnion, "Total_Fertility_Rate">>,
       <<EuropeanUnion, "Male_Literacy_Rate">>,
       <<EuropeanUnion, "Female_Literacy_Rate">>,
       <<Tokelau, "Death_Rate">>,
       <<Tokelau, "Real_GDP_PPP_billion_USD">>,
       <<Tokelau, "Budget_billion_USD">>,
       <<Tokelau, "Exports_billion_USD">> >>

\* only the first matching row
CountryRows_FirstOnly(rows, country) ==
    LET all == {idx \in DOMAIN rows : rows[idx]["Country"] = Str(country)}
    IN  IF all = {} THEN {} ELSE {CHOOSE idx \in all : \A j \in all : idx <= j}

\* df["Country"] == country, as the set of index labels where it is True
CountryRows(rows, country) == {idx \in DOMAIN rows : rows[idx]["Country"] = Str(country)}

\* no variant tests "cat in df.columns"
BlankCell_NoColumnTest(tbl, country, c, variant) ==
    IF c \in ColSet(tbl.columns) THEN
        [tbl EXCEPT !.rows = [idx \in DOMAIN tbl.rows |->
            IF idx \in CountryRows(tbl.rows, country)
            THEN [tbl.rows[idx] EXCEPT ![c] = NaN] ELSE tbl.rows[idx]]]
    ELSE [columns |-> Append(tbl.columns, c),
          rows |-> [idx \in DOMAIN tbl.rows |->
                      [x \in ColSet(tbl.columns) \cup {c} |->
                          IF x = c THEN NaN ELSE tbl.rows[idx][x]]]]

\* df.loc[mask, cat] = np.nan; a column that does not exist is created by
\* the assignment (every cell NaN) in the variant that does not test
\* "cat in df.columns"
BlankCell(tbl, country, c, variant) ==
    IF c \in ColSet(tbl.columns) THEN
        [tbl EXCEPT !.rows = [idx \in DOMAIN tbl.rows |->
            IF idx \in CountryRows(tbl.rows, country)
            THEN [tbl.rows[idx] EXCEPT ![c] = NaN] ELSE tbl.rows[idx]]]
    ELSE IF variant = "clean_data" THEN tbl
    ELSE [columns |-> Append(tbl.columns, c),
          rows |-> [idx \in DOMAIN tbl.rows |->
                      [x \in ColSet(tbl.columns) \cup {c} |->
                          IF x = c THEN NaN ELSE tbl.rows[idx][x]]]]

RECURSIVE BlankAll(_, _, _)
BlankAll(tbl, list, variant) ==
    IF list = <<>> THEN tbl
    ELSE BlankAll(BlankCell(tbl, Head(list)[1], Head(list)[2], variant), Tail(list), variant)

\* the mask inverted: the matching rows are the ones kept
DropCountry_Inverted(tbl, country) ==
    [tbl EXCEPT !.rows = [idx \in CountryRows(tbl.rows, country) |-> tbl.rows[idx]]]

\* df.drop(df[df["Country"] == country].index, inplace=True)
DropCountry(tbl, country) ==
    [tbl EXCEPT !.rows = [idx \in (DOMAIN tbl.rows) \ CountryRows(tbl.rows, country) |->
                             tbl.rows[idx]]]

RECURSIVE DropAll(_, _)
DropAll(tbl, list) ==
    IF list = <<>> THEN tbl ELSE DropAll(DropCountry(tbl, Head(list)), Tail(list))

clean_outliers(tbl, cl, dl, variant) == DropAll(BlankAll(tbl, cl, variant), dl)

\* -------------------------------------------------------------------------
\* Inputs.  A raw cell text is a concatenation of at most MaxParts fragments.
\* -------------------------------------------------------------------------
MaxParts == 2

MaxRows == 2

MaxRuns == 2

Fragments ==
    { <<"5">>,
      <<"2", ".", "5">>,
      <<" ", "m", "i", "l", "l", "i", "o", "n">>,
      <<" ", "b", "i", "l", "l", "i", "o", "n">>,
      <<" ", "(", "p", "e", "r", "c", "e", "n", "t", "a", "g", "e", ")">>,
      <<",">>,
      <<" ", "s", "q", " ", "k", "m">>,
      <<"N", "E", "G", "L">>,
      <<"P", "a", "r", "l", "i", "a", "m", "e", "n", "t", "a", "r", "y", " ",
        "R", "e", "p", "u", "b", "l", "i", "c">>,
      <<"i", "n", "f">> }

\* whole texts added to the concatenations
ExtraTexts ==
    { <<"1", ".", "2", " ", "b", "i", "l", "l", "i", "o", "n">>,
      <<"1", ".", "2", " ", "(", "p", "e", "r", "c", "e", "n", "t", "a", "g", "e", ")">>,
      <<"n", "e", "g", "l", "i", "g", "i", "b", "l", "e">>,
      <<"I", "l", "e", " ", "A", "m", "s", "t", "e", "r", "d", "a", "m">>,
      <<"n", "e", "g", "l", "i", "g", "i", "b", "l", "e", " ", "m", "i", "l", "l", "i", "o", "n">>,
      <<"5", " ", "I", "l", "e", " ", "A", "m", "s", "t", "e", "r", "d", "a", "m", " ",
        "(", "p", "e", "r", "c", "e", "n", "t", "a", "g", "e", ")">>,
      <<"5", "%">>,
      <<"5", " ", "k", "m">>,
      <<"1", "2", ",", "3", "4", "5">>,
      <<"n", "/", "a">>,
      <<"A", "b", "s", "o", "l", "u", "t", "e", " ", "M", "o", "n", "a", "r", "c", "h", "y">>,
      <<"R", "e", "p", "u", "b", "l", "i", "c", " ", "D", "e", "m", "o", "c", "r", "a", "c", "y">>,
      <<"O", "t", "h", "e", "r", " ", "T", "e", "r", "r", "i", "t", "o", "r", "y">>,
      <<"C", "o", "m", "m", "u", "n", "i", "s", "t", " ", "T", "h", "e", "o", "c", "r", "a", "c", "y">> }

RECURSIVE Texts(_)
Texts(n) ==
    IF n = 0 THEN {<<>>}
    ELSE Texts(n - 1) \cup {a \o f : a \in Texts(n - 1), f \in Fragments}

\* the raw cell texts of the one-row tables
CellTexts == Texts(MaxParts) \cup ExtraTexts

Fooland == <<"F", "O", "O", "L", "A", "N", "D">>

EuropeanUnionMixedCase == <<"E", "u", "r", "o", "p", "e", "a", "n", " ", "U", "n", "i", "o", "n">>

Brussels == <<"B", "r", "u", "s", "s", "e", "l", "s">>

TxtPercent5 == <<"5", " ", "(", "p", "e", "r", "c", "e", "n", "t", "a", "g", "e", ")">>

TxtJunk == <<"n", "/", "a">>

TxtPopMillion == <<"1", ".", "2", " ", "m", "i", "l", "l", "i", "o", "n">>

TxtPop50 == <<"5", "0">>

LayoutPopFirst == <<"Country", "Capital", "Total_Population", "Birth_Rate">>

LayoutPopLast == <<"Country", "Capital", "Birth_Rate", "Total_Population">>

LayoutNoPop == <<"Country", "Capital", "Birth_Rate">>

Layouts == {LayoutPopFirst, LayoutPopLast, LayoutNoPop}

\* Total_Population of the row that carries the free text
PopValues == {NaN, Str(TxtPop50), Str(TxtPopMillion)}

CountryNames == {EuropeanUnion, Fooland, EuropeanUnionMixedCase}

SmallTexts == {TxtPercent5, TxtJunk}

DelLists == {<<>>, <<Fooland>>}

MkRow(cols, country, capital, pop, rate) ==
    [c \in ColSet(cols) |->
        IF c = "Country" THEN country
        ELSE IF c = "Capital" THEN capital
        ELSE IF c = "Total_Population" THEN pop
        ELSE rate]

HasPercentage(t) == Contains(t, PercentageTest)

\* One row with any text of CellTexts in Birth_Rate.  Only the
\* '(percentage)' branch reads Total_Population and df.columns, so the
\* column layout and the Total_Population value vary for the texts that
\* contain '(percentage)' and are fixed for the others.
OneRowScenarios ==
    {[columns |-> cols,
      rows |-> [idx \in {1} |-> MkRow(cols, Str(EuropeanUnion), Str(Brussels), pop, Str(t))],
      del_list |-> <<>>] :
        cols \in Layouts, pop \in PopValues, t \in {x \in CellTexts : HasPercentage(x)}}
    \cup
    {[columns |-> LayoutPopLast,
      rows |-> [idx \in {1} |-> MkRow(LayoutPopLast, Str(EuropeanUnion), Str(Brussels),
                                      Str(TxtPopMillion), Str(t))],
      del_list |-> <<>>] :
        t \in {x \in CellTexts : ~HasPercentage(x)}}

\* Up to MaxRows rows with a numeric Total_Population column and few texts,
\* with and without a deletion list.
SmallRows ==
    {MkRow(LayoutPopFirst, Str(cn), Str(Brussels), Num(1000000, 0), Str(t)) :
        cn \in CountryNames, t \in SmallTexts}

ManyRowScenarios ==
    {[columns |-> LayoutPopFirst, rows |-> r, del_list |-> d] :
        r \in UNION {[1..n -> SmallRows] : n \in 1..MaxRows}, d \in DelLists}

Scenarios == OneRowScenarios \cup ManyRowScenarios

TxtKm5 == <<"5", " ", "k", "m">>

\* The second topic table (energy_data.csv): no Total_Population column, a
\* percentage text for one country and a unit text for another.
EnergyTable ==
    [columns |-> <<"Country", "electricity_access_percent">>,
     rows |-> << [c \in {"Country", "electricity_access_percent"} |->
                    IF c = "Country" THEN Str(EuropeanUnion) ELSE Str(TxtPercent5)],
                 [c \in {"Country", "electricity_access_percent"} |->
                    IF c = "Country" THEN Str(Fooland) ELSE Str(TxtKm5)] >>]

\* -------------------------------------------------------------------------
\* pd.merge(left, right, on="Country"): the inner join.  One row for every
\* pair of a left and a right row with equal Country, in the order of the
\* left rows; the columns of left, then those of right without Country; a
\* fresh index 1..n.
\* -------------------------------------------------------------------------
\* the rows of a table in the order of their index labels
RECURSIVE RowSeq(_)
RowSeq(rows) ==
    IF DOMAIN rows = {} THEN <<>>
    ELSE LET m == CHOOSE i \in DOMAIN rows : \A j \in DOMAIN rows : i <= j
         IN  <<rows[m]>> \o RowSeq([i \in DOMAIN rows \ {m} |-> rows[i]])

JoinRow(l, r) == [c \in DOMAIN l \cup DOMAIN r |-> IF c \in DOMAIN l THEN l[c] ELSE r[c]]

RECURSIVE MatchesOf(_, _)
MatchesOf(l, rs) ==
    IF rs = <<>> THEN <<>>
    ELSE (IF Head(rs)["Country"] = l["Country"] THEN <<JoinRow(l, Head(rs))>> ELSE <<>>)
         \o MatchesOf(l, Tail(rs))

RECURSIVE JoinRows(_, _)
JoinRows(ls, rs) ==
    IF ls = <<>> THEN <<>> ELSE MatchesOf(Head(ls), rs) \o JoinRows(Tail(ls), rs)

Merge(left, right) ==
    [columns |-> left.columns \o SelectSeq(right.columns, LAMBDA c : c # "Country"),
     rows |-> JoinRows(RowSeq(left.rows), RowSeq(right.rows))]

NoTable == [columns |-> <<>>, rows |-> <<>>]

\* -------------------------------------------------------------------------
\* data_cleaner(df, cat) as a function of its arguments: for each column of
\* cat in turn the inner loop over the rows in index order, then the column
\* conversion; raised tells whether astype(float) raised (Clean_Data.py).
\* -------------------------------------------------------------------------
RECURSIVE VisitColumn(_, _, _, _, _)
VisitColumn(rows, c, idx, hasPop, variant) ==
    IF idx > Cardinality(DOMAIN rows) THEN rows
    ELSE LET pop == IF hasPop THEN rows[idx]["Total_Population"] ELSE NaN
         IN  VisitColumn([rows EXCEPT ![idx][c] = AfterVisit(rows[idx][c], hasPop, pop, variant)],
                         c, idx + 1, hasPop, variant)

RECURSIVE data_cleaner(_, _, _, _)
data_cleaner(rows, cols, hasPop, variant) ==
    IF cols = <<>> THEN [raised |-> FALSE, rows |-> rows]
    ELSE LET c == Head(cols)
             visited == VisitColumn(rows, c, 1, hasPop, variant)
             col == [idx \in DOMAIN visited |-> visited[idx][c]]
         IN  IF variant = "Clean_Data" /\ AstypeRaises(col)
             THEN [raised |-> TRUE, rows |-> visited]
             ELSE data_cleaner([idx \in DOMAIN visited |->
                                   [visited[idx] EXCEPT ![c] = ToNumeric(visited[idx][c])]],
                               Tail(cols), hasPop, variant)

\* -------------------------------------------------------------------------
\* The consumer modules' preparation of the tables load_and_clean_separate
\* returned.
\* -------------------------------------------------------------------------
\* the value get_iso3 computes from a country name (pycountry lookup): the
\* code for that name, or None
get_iso3(name) == [k |-> "iso", s |-> name.s, m |-> 0, e |-> 0]

\* df["ISO3"] = df["Country"].apply(get_iso3); a table without a Country
\* column gets placeholder Country and ISO3 columns
AddISO3Column(tbl) ==
    IF "Country" \in ColSet(tbl.columns)
    THEN [columns |-> IF "ISO3" \in ColSet(tbl.columns) THEN tbl.columns
                      ELSE Append(tbl.columns, "ISO3"),
          rows |-> [idx \in DOMAIN tbl.rows |->
                      [c \in ColSet(tbl.columns) \cup {"ISO3"} |->
                          IF c = "ISO3" THEN get_iso3(tbl.rows[idx]["Country"])
                          ELSE tbl.rows[idx][c]]]]
    ELSE [columns |-> tbl.columns \o <<"Country", "ISO3">>,
          rows |-> [idx \in DOMAIN tbl.rows |->
                      [c \in ColSet(tbl.columns) \cup {"Country", "ISO3"} |->
                          IF c \in {"Country", "ISO3"} THEN NaN ELSE tbl.rows[idx][c]]]]

RECURSIVE IntToDigits(_)
IntToDigits(n) ==
    IF n < 10 THEN <<Digits[n + 1]>> ELSE IntToDigits(n \div 10) \o <<Digits[(n % 10) + 1]>>

RECURSIVE Zeros(_)
Zeros(n) == IF n <= 0 THEN <<>> ELSE <<"0">> \o Zeros(n - 1)

\* str(x) of a float in positional notation (the modelled magnitudes stay
\* inside the range Python prints without an exponent)
FloatStr(v) ==
    IF v.k = "nan" THEN <<"n", "a", "n">>
    ELSE IF v.k = "inf" THEN (IF v.m < 0 THEN <<"-">> ELSE <<>>) \o <<"i", "n", "f">>
    ELSE LET a == IF v.m < 0 THEN 0 - v.m ELSE v.m
             sign == IF v.m < 0 THEN <<"-">> ELSE <<>>
             ds == IntToDigits(a)
         IN  IF v.e >= 0 THEN sign \o ds \o Zeros(v.e) \o <<".", "0">>
             ELSE LET padded == Zeros((1 - v.e) - Len(ds)) \o ds
                      cut == Len(padded) + v.e
                  IN  sign \o SubSeq(padded, 1, cut) \o <<".">>
                           \o SubSeq(padded, cut + 1, Len(padded))

\* Series.astype(str) on one element
AsStr(v) == IF v.k = "str" THEN v.s ELSE FloatStr(v)

\* one element through astype(str), .str.replace(",", ""),
\* .str.replace("%", ""), .str.strip(), .replace("", nan) and
\* pd.to_numeric(errors="coerce")
CleanNumericCell(v) ==
    LET t == RStrip(LStrip(Remove(Remove(AsStr(v), <<",">>), <<"%">>)))
    IN  IF t = <<>> THEN NaN ELSE ToNumeric(Str(t))

\* clean_numeric_columns(df, exclude_cols=("Country", "ISO3"))
clean_numeric_columns(tbl) ==
    [columns |-> tbl.columns,
     rows |-> [idx \in DOMAIN tbl.rows |->
                 [c \in DOMAIN tbl.rows[idx] |->
                     IF c \in {"Country", "ISO3"} THEN tbl.rows[idx][c]
                     ELSE CleanNumericCell(tbl.rows[idx][c])]]]

\* -------------------------------------------------------------------------
\* State.
\* -------------------------------------------------------------------------
VARIABLES
    variant,    \* which file's functions run: "clean_data" or "Clean_Data"
    raw,        \* the table as loaded (rows), never written
    columns,    \* df.columns
    df,         \* the rows of the table being cleaned
    del_list,   \* the deletion list handed to clean_outliers
    cat,        \* the column list handed to data_cleaner
    pc,         \* "load", "clean", "cleaned", "done", "raised", "returned", "merged"
    ci,         \* position in cat of the column being cleaned
    ri,         \* index label of the next cell of that column
    run,        \* number of data_cleaner calls started
    first,      \* the rows returned by the first data_cleaner call
    before,     \* the rows handed to clean_outliers
    visits,     \* per visited cell of the current call: branch taken
    stdout,     \* lines printed by the except clause (Clean_Data.py only)
    pending,    \* the topic tables read from disk and not yet processed
    datasets,   \* the tables load_and_clean_separate has stored back, as returned
    joinInputs, \* the tables handed to pd.merge, <<>> before any join
    merged,     \* the table the consumer's pd.merge built
    cleaned_data \* the returned tables as the consumer module left them, <<>> before

vars == <<variant, raw, columns, df, del_list, cat, pc, ci, ri, run, first, before, visits, stdout,
          pending, datasets, joinInputs, merged, cleaned_data>>

tables == <<pending, datasets, joinInputs, merged, cleaned_data>>

Init ==
    /\ variant \in {"clean_data", "Clean_Data"}
    /\ \E sc \in Scenarios :
          /\ columns = sc.columns
          /\ df = sc.rows
          /\ del_list = sc.del_list
    /\ raw = df
    /\ cat = <<>>
    /\ pc = "load"
    /\ ci = 0
    /\ ri = 0
    /\ run = 0
    /\ first = df
    /\ before = df
    /\ visits = <<>>
    /\ stdout = <<>>
    /\ pending = <<EnergyTable>>
    /\ datasets = <<>>
    /\ joinInputs = <<>>
    /\ merged = NoTable
    /\ cleaned_data = <<>>

HasPop == "Total_Population" \in ColSet(columns)

LastLabel == Cardinality(DOMAIN df)

\* load_and_clean_separate / load_clean_data: choose the target columns and
\* call data_cleaner
SelectColumns ==
    /\ pc = "load"
    /\ variant = "Clean_Data" => pending = <<>>
    /\ cat' = TargetColumns(columns)
    /\ pc' = IF TargetColumns(columns) = <<>> THEN "cleaned" ELSE "clean"
    /\ ci' = 1
    /\ ri' = 1
    /\ run' = 1
    /\ UNCHANGED <<variant, raw, columns, df, del_list, first, before, visits, stdout>>
    /\ UNCHANGED tables

\* the loop body with the percentage branch reading the repaired value of
\* Total_Population
VisitCell_PopRepaired ==
    /\ pc = "clean"
    /\ ri <= LastLabel
    /\ LET c == cat[ci]
           val == df[ri][c]
           pop == IF HasPop
                  THEN ToNumeric(AfterVisit(df[ri]["Total_Population"], HasPop, NaN, variant))
                  ELSE NaN
           o == Normalize(val, HasPop, pop, variant)
       IN  /\ df' = IF o.write THEN [df EXCEPT ![ri][c] = o.val] ELSE df
           /\ visits' = Append(visits, [idx |-> ri, col |-> c, branch |-> o.branch, write |-> o.write])
           /\ stdout' = IF variant = "Clean_Data" /\ ~o.write /\ o.branch # "null"
                        THEN Append(stdout, [category |-> c, country |-> df[ri]["Country"],
                                             value |-> o.shown])
                        ELSE stdout
    /\ ri' = ri + 1
    /\ UNCHANGED <<variant, raw, columns, del_list, cat, pc, ci, run, first, before>>
    /\ UNCHANGED tables

\* one iteration of "for idx, val in df[i].items()"
VisitCell ==
    /\ pc = "clean"
    /\ ri <= LastLabel
    /\ LET c == cat[ci]
           val == df[ri][c]
           pop == IF HasPop THEN df[ri]["Total_Population"] ELSE NaN
           o == Normalize(val, HasPop, pop, variant)
       IN  /\ df' = IF o.write THEN [df EXCEPT ![ri][c] = o.val] ELSE df
           /\ visits' = Append(visits, [idx |-> ri, col |-> c, branch |-> o.branch, write |-> o.write])
           /\ stdout' = IF variant = "Clean_Data" /\ ~o.write /\ o.branch # "null"
                        THEN Append(stdout, [category |-> c, country |-> df[ri]["Country"],
                                             value |-> o.shown])
                        ELSE stdout
    /\ ri' = ri + 1
    /\ UNCHANGED <<variant, raw, columns, del_list, cat, pc, ci, run, first, before>>
    /\ UNCHANGED tables

\* the statement after the inner loop: pd.to_numeric(df[i], errors='coerce')
\* in clean_data.py, df_total[i].astype(float) in Clean_Data.py
CoerceColumn ==
    /\ pc = "clean"
    /\ ri > LastLabel
    /\ LET c == cat[ci]
           col == [idx \in DOMAIN df |-> df[idx][c]]
       IN  IF variant = "Clean_Data" /\ AstypeRaises(col)
           THEN /\ pc' = "raised"
                /\ UNCHANGED <<df, ci, ri>>
           ELSE /\ df' = [idx \in DOMAIN df |-> [df[idx] EXCEPT ![c] = ToNumeric(df[idx][c])]]
                /\ pc' = IF ci = Len(cat) THEN "cleaned" ELSE "clean"
                /\ ci' = ci + 1
                /\ ri' = 1
    /\ UNCHANGED <<variant, raw, columns, del_list, cat, run, first, before, visits, stdout>>
    /\ UNCHANGED tables

\* data_cleaner called again on the table it returned
Reclean ==
    /\ pc = "cleaned"
    /\ run < MaxRuns
    /\ datasets = <<>>
    /\ cat # <<>>
    /\ run' = run + 1
    /\ first' = IF run = 1 THEN df ELSE first
    /\ pc' = "clean"
    /\ ci' = 1
    /\ ri' = 1
    /\ visits' = <<>>
    /\ UNCHANGED <<variant, raw, columns, df, del_list, cat, before, stdout>>
    /\ UNCHANGED tables

\* clean_outliers called while data_cleaner is still at work
CleanOutliers_Early ==
    /\ pc \in {"clean", "cleaned"}
    /\ LET t == clean_outliers([columns |-> columns, rows |-> df], CleanList, del_list, variant)
       IN  /\ columns' = t.columns
           /\ df' = t.rows
    /\ before' = df
    /\ pc' = "done"
    /\ UNCHANGED <<variant, raw, del_list, cat, ci, ri, run, first, visits, stdout>>
    /\ UNCHANGED tables

\* clean_outliers(df, clean_list, del_list)
CleanOutliers ==
    /\ pc = "cleaned"
    /\ LET t == clean_outliers([columns |-> columns, rows |-> df], CleanList, del_list, variant)
       IN  /\ columns' = t.columns
           /\ df' = t.rows
    /\ before' = df
    /\ pc' = "done"
    /\ UNCHANGED <<variant, raw, del_list, cat, ci, ri, run, first, visits, stdout>>
    /\ UNCHANGED tables

\* Clean_Data.py: the pd.merge calls on the tables as read, before
\* data_cleaner; the result is df_total
MergeRaw ==
    /\ variant = "Clean_Data"
    /\ pc = "load"
    /\ pending # <<>>
    /\ LET t == Merge([columns |-> columns, rows |-> df], Head(pending))
       IN  /\ columns' = t.columns
           /\ df' = t.rows
           /\ raw' = t.rows
           /\ first' = t.rows
           /\ before' = t.rows
    /\ joinInputs' = <<[columns |-> columns, rows |-> df], Head(pending)>>
    /\ pending' = Tail(pending)
    /\ UNCHANGED <<variant, del_list, cat, pc, ci, ri, run, visits, stdout, datasets, merged,
                   cleaned_data>>

\* clean_data.py: the end of one iteration of "for name, df in
\* datasets.items()": the cleaned table is stored back; the next table is
\* taken up, or load_and_clean_separate returns
StoreTable ==
    /\ variant = "clean_data"
    /\ pc = "done"
    /\ datasets' = Append(datasets, [columns |-> columns, rows |-> df])
    /\ IF pending # <<>>
       THEN /\ columns' = Head(pending).columns
            /\ df' = Head(pending).rows
            /\ raw' = Head(pending).rows
            /\ first' = Head(pending).rows
            /\ before' = Head(pending).rows
            /\ pending' = Tail(pending)
            /\ pc' = "load"
       ELSE /\ first' = df
            /\ before' = df
            /\ pc' = "returned"
            /\ UNCHANGED <<columns, df, raw, pending>>
    /\ cat' = <<>>
    /\ ci' = 0
    /\ ri' = 0
    /\ run' = 0
    /\ visits' = <<>>
    /\ UNCHANGED <<variant, del_list, stdout, joinInputs, merged, cleaned_data>>

\* the consumer joins two cleaned tables on Country
MergeCleaned ==
    /\ pc = "returned"
    /\ Len(datasets) >= 2
    /\ joinInputs' = <<datasets[1], datasets[2]>>
    /\ merged' = Merge(datasets[1], datasets[2])
    /\ pc' = "merged"
    /\ UNCHANGED <<variant, raw, columns, df, del_list, cat, ci, ri, run, first, before, visits,
                   stdout, pending, datasets, cleaned_data>>

\* app.py: the module adds an ISO3 column to every table of the dict the
\* cleaner returned
PrepareApp ==
    /\ pc = "returned"
    /\ cleaned_data = <<>>
    /\ cleaned_data' = [k \in DOMAIN datasets |-> AddISO3Column(datasets[k])]
    /\ UNCHANGED <<variant, raw, columns, df, del_list, cat, pc, ci, ri, run, first, before, visits,
                   stdout, pending, datasets, joinInputs, merged>>

\* dashboard.py: the module adds an ISO3 column to every table of the dict
\* and stores clean_numeric_columns(df) back under the same key
PrepareDashboard ==
    /\ pc = "returned"
    /\ cleaned_data = <<>>
    /\ cleaned_data' = [k \in DOMAIN datasets |->
                           clean_numeric_columns(AddISO3Column(datasets[k]))]
    /\ UNCHANGED <<variant, raw, columns, df, del_list, cat, pc, ci, ri, run, first, before, visits,
                   stdout, pending, datasets, joinInputs, merged>>

Next ==
    \/ MergeRaw
    \/ SelectColumns
    \/ VisitCell
    \/ CoerceColumn
    \/ Reclean
    \/ CleanOutliers
    \/ StoreTable
    \/ MergeCleaned
    \/ PrepareApp
    \/ PrepareDashboard

Spec == Init /\ [][Next]_vars

\* =========================================================================
\* Properties
\* =========================================================================
\* the table at hand holds the demographics columns
IsDemographics == {"Capital", "Birth_Rate"} \subseteq ColSet(columns)

ColPos(c) == CHOOSE i \in 1..Len(cat) : cat[i] = c

\* the loop body of data_cleaner has run on cell (idx, c) and clean_outliers
\* has not run yet
CellDone(idx, c) ==
    /\ c \in ColSet(cat)
    /\ idx \in DOMAIN df
    /\ \/ pc = "cleaned"
       \/ pc \in {"clean", "raised"} /\ run > 1
       \/ pc \in {"clean", "raised"} /\ ColPos(c) < ci
       \/ pc \in {"clean", "raised"} /\ ColPos(c) = ci /\ idx < ri

Txt25Million == <<"2", ".", "5", " ", "m", "i", "l", "l", "i", "o", "n">>

Txt12Billion == <<"1", ".", "2", " ", "b", "i", "l", "l", "i", "o", "n">>

TxtMillion == <<" ", "m", "i", "l", "l", "i", "o", "n">>

TxtBillion == <<" ", "b", "i", "l", "l", "i", "o", "n">>

TxtInf == <<"i", "n", "f">>

\* the decimal numerals among the fragments, with their value m * 10^e
Numerals ==
    { [txt |-> <<"5">>, m |-> 5, e |-> 0],
      [txt |-> <<"2", ".", "5">>, m |-> 25, e |-> -1],
      [txt |-> <<"1", ".", "2">>, m |-> 12, e |-> -1] }

\* -------------------------------------------------------------------------
\* C1 (as claimed): when data_cleaner has returned, every cell of every
\* target column is a finite float or the missing marker, never a string
\* and never an infinity.
\* -------------------------------------------------------------------------
C1_FiniteOrMissing ==
    pc = "cleaned" =>
        \A idx \in DOMAIN df : \A c \in ColSet(cat) : df[idx][c].k \in {"num", "nan"}

\* -------------------------------------------------------------------------
\* C2 (as claimed): data_cleaner never raises on cell content; when it
\* returns, no target cell is left as text.
\* -------------------------------------------------------------------------
C2_NeverRaises ==
    /\ pc # "raised"
    /\ pc = "cleaned" => \A idx \in DOMAIN df : \A c \in ColSet(cat) : df[idx][c].k # "str"

\* -------------------------------------------------------------------------
\* C3 (as claimed): 'million' and 'billion' are both scaled by 1,000,000:
\* '2.5 million' is cleaned to 2500000.0 and '1.2 billion' to 1200000.0.
\* -------------------------------------------------------------------------
C3_BillionScaledLikeMillion ==
    \A idx \in DOMAIN df : \A c \in ColSet(cat) :
        CellDone(idx, c) =>
            /\ raw[idx][c] = Str(Txt25Million) => df[idx][c] = Num(2500000, 0)
            /\ raw[idx][c] = Str(Txt12Billion) => df[idx][c] = Num(1200000, 0)

\* -------------------------------------------------------------------------
\* C3 (amended): a cell 'N million' is cleaned to N * 1,000,000 ('2.5
\* million' to 2500000.0); a cell 'N billion' is never given a number: it
\* keeps its text ('N b' does not parse once 'illion' is removed) and is
\* missing when data_cleaner returns.
\* -------------------------------------------------------------------------
C3_MillionScaledBillionMissing ==
    \A idx \in DOMAIN df : \A c \in ColSet(cat) : \A n \in Numerals :
        /\ raw[idx][c] = Str(n.txt \o TxtMillion) /\ CellDone(idx, c)
              => df[idx][c] = Num(n.m, n.e + 6)
        /\ raw[idx][c] = Str(n.txt \o TxtBillion) /\ pc # "done"
              => /\ df[idx][c].k # "num"
                 /\ CellDone(idx, c) /\ pc = "clean" /\ run = 1 /\ ColPos(c) = ci
                       => df[idx][c] = raw[idx][c]
                 /\ pc = "cleaned" => df[idx][c] = NaN

C3_Witness ==
    \E idx \in DOMAIN df : \E c \in ColSet(cat) :
        /\ pc = "cleaned"
        /\ raw[idx][c] = Str(Txt12Billion)
        /\ df[idx][c] = NaN

\* round(numeral / 100 * base) for the numerals and the population values of
\* the inputs: 2.5 rounds to 2 (tie to even), 1.25 to 1, 0.6 to 1
PercentTable ==
    { [txt |-> <<"5">>, base |-> Num(1000000, 0), count |-> 50000],
      [txt |-> <<"5">>, base |-> Num(50, 0), count |-> 2],
      [txt |-> <<"5">>, base |-> Num(1200000, 0), count |-> 60000],
      [txt |-> <<"2", ".", "5">>, base |-> Num(1000000, 0), count |-> 25000],
      [txt |-> <<"2", ".", "5">>, base |-> Num(50, 0), count |-> 1],
      [txt |-> <<"2", ".", "5">>, base |-> Num(1200000, 0), count |-> 30000],
      [txt |-> <<"1", ".", "2">>, base |-> Num(1000000, 0), count |-> 12000],
      [txt |-> <<"1", ".", "2">>, base |-> Num(50, 0), count |-> 1],
      [txt |-> <<"1", ".", "2">>, base |-> Num(1200000, 0), count |-> 14400] }

IsCount(v, txt, base) ==
    \E p \in PercentTable : p.txt = txt /\ p.base = base /\ v = Num(p.count, 0)

\* -------------------------------------------------------------------------
\* C4 (as claimed): in a table with a Total_Population column every cell
\* 'N (percentage)' is assigned round(N / 100 * Total_Population of its row).
\* -------------------------------------------------------------------------
C4_PercentageAlwaysDerived ==
    \A idx \in DOMAIN df : \A c \in ColSet(cat) : \A n \in Numerals :
        raw[idx][c] = Str(n.txt \o PercentageStrip) /\ HasPop /\ CellDone(idx, c)
            => \/ IsCount(df[idx][c], n.txt, Float(raw[idx]["Total_Population"]))
               \/ IsCount(df[idx][c], n.txt, df[idx]["Total_Population"])

\* -------------------------------------------------------------------------
\* C4 (amended): a cell whose stripped text is 'N (percentage)' is assigned
\* round(N / 100 * base), ties to even, where base is what float() gives for
\* the row's Total_Population when the cell is visited (the cleaned value if
\* Total_Population precedes the column in the column list, the raw value
\* otherwise), provided base is a finite number; when base is missing or
\* text that float() rejects nothing is assigned and the cell is missing
\* when data_cleaner returns.
\* -------------------------------------------------------------------------
C4_PercentageOfParsedPopulation ==
    \A idx \in DOMAIN df : \A c \in ColSet(cat) \ {"Total_Population"} :
        /\ HasPop
        /\ CellDone(idx, c)
        /\ raw[idx][c].k = "str"
        /\ HasPercentage(raw[idx][c].s)
        => LET v == StripUnits(raw[idx][c].s)
               base == IF ColPos("Total_Population") < ColPos(c)
                       THEN df[idx]["Total_Population"]
                       ELSE Float(raw[idx]["Total_Population"])
           IN  \A n \in Numerals :
                   v = n.txt \o PercentageStrip =>
                       IF base.k = "num" THEN IsCount(df[idx][c], n.txt, base)
                       ELSE /\ df[idx][c].k \in {"str", "nan"}
                            /\ pc = "cleaned" => df[idx][c] = NaN

C4_Witness ==
    \E idx \in DOMAIN df :
        /\ IsDemographics
        /\ pc = "cleaned"
        /\ HasPop
        /\ raw[idx]["Birth_Rate"] = Str(TxtPercent5)
        /\ raw[idx]["Total_Population"] = Num(1000000, 0)
        /\ df[idx]["Birth_Rate"] = Num(50000, 0)

\* -------------------------------------------------------------------------
\* C5 (as claimed): every cell that no rule resolved is recorded with its
\* column, its country and its raw value, and is missing when data_cleaner
\* returns.
\* -------------------------------------------------------------------------
C5_UnresolvedRecorded ==
    \A i \in 1..Len(visits) :
        ~visits[i].write /\ visits[i].branch # "null" =>
            /\ \E j \in 1..Len(stdout) :
                  /\ stdout[j].category = visits[i].col
                  /\ stdout[j].country = raw[visits[i].idx]["Country"]
                  /\ stdout[j].value = raw[visits[i].idx][visits[i].col]
            /\ pc = "cleaned" => df[visits[i].idx][visits[i].col] = NaN

\* -------------------------------------------------------------------------
\* C6: after data_cleaner and clean_outliers, for every (country, column)
\* pair of the clean list the cell of that column is missing in every row
\* whose Country equals that country.
\* -------------------------------------------------------------------------
C6_OverridesBlank ==
    pc = "done" =>
        \A i \in 1..Len(CleanList) : \A idx \in DOMAIN df :
            /\ df[idx]["Country"] = Str(CleanList[i][1])
            /\ CleanList[i][2] \in ColSet(columns)
            => df[idx][CleanList[i][2]] = NaN

C6_Witness ==
    \E idx \in DOMAIN df :
        /\ IsDemographics
        /\ pc = "done"
        /\ df[idx]["Country"] = Str(EuropeanUnion)
        /\ before[idx]["Birth_Rate"].k = "num"
        /\ df[idx]["Birth_Rate"] = NaN

\* -------------------------------------------------------------------------
\* C7: after clean_outliers no row whose Country is in the deletion list
\* remains, and every row whose Country is not in it is still present.
\* -------------------------------------------------------------------------
InDelList(v) == \E i \in 1..Len(del_list) : v = Str(del_list[i])

C7_DeletionExact ==
    pc = "done" =>
        /\ \A idx \in DOMAIN df : ~InDelList(df[idx]["Country"])
        /\ \A idx \in DOMAIN before :
              ~InDelList(before[idx]["Country"]) =>
                  /\ idx \in DOMAIN df
                  /\ df[idx]["Country"] = before[idx]["Country"]

C7_Witness ==
    /\ pc = "done"
    /\ del_list # <<>>
    /\ \E idx \in DOMAIN before : idx \notin DOMAIN df
    /\ \E idx \in DOMAIN before : idx \in DOMAIN df

\* -------------------------------------------------------------------------
\* C8: a second data_cleaner call on the output of the first, with the same
\* column list, changes no cell.
\* -------------------------------------------------------------------------
C8_Idempotent == run >= 2 /\ pc # "done" => df = first

C8_Witness ==
    /\ run = 2
    /\ pc = "cleaned"
    /\ \E idx \in DOMAIN df : \E c \in ColSet(cat) :
          raw[idx][c].k = "str" /\ df[idx][c].k = "num"

\* -------------------------------------------------------------------------
\* C9: the excluded columns are present and hold in every row the raw value
\* they held before cleaning.
\* -------------------------------------------------------------------------
C9_ExcludedUnchanged ==
    \A idx \in DOMAIN df : \A c \in DOMAIN raw[idx] :
        c \in {"Country", "internet_country_code", "Fiscal_Year", "Geographic_Coordinates",
               "Capital", "Capital_Coordinates"}
            => c \in ColSet(columns) /\ df[idx][c] = raw[idx][c]

C9_Witness ==
    \E idx \in DOMAIN df :
        /\ IsDemographics
        /\ pc = "cleaned"
        /\ df[idx]["Capital"] = Str(Brussels)
        /\ df[idx]["Country"] = raw[idx]["Country"]
        /\ \E c \in ColSet(cat) : df[idx][c] # raw[idx][c]

\* -------------------------------------------------------------------------
\* C10 (as claimed): a cell whose text contains 'NEGL', 'negligible' or
\* 'Ile Amsterdam' is missing once data_cleaner has converted its column,
\* whatever else the text contains.
\* -------------------------------------------------------------------------
C10_SentinelMissing ==
    \A idx \in DOMAIN df : \A c \in ColSet(cat) :
        /\ raw[idx][c].k = "str"
        /\ IsSentinel(raw[idx][c].s)
        /\ \/ pc = "cleaned"
           \/ pc = "raised" /\ ColPos(c) <= ci
        => df[idx][c] = NaN

\* the stripped text v of a raw text reaches the test of the government
\* chain: the first float() failed and no earlier elif matched
ReachesGov(t, variant_) ==
    LET v == StripUnits(t)
    IN  /\ ParseFloat(t).k = "err"
        /\ ~Contains(v, Illion)
        /\ ~PercentageGuard(v, HasPop, variant_)
        /\ ~IsSentinel(v)
        /\ IsGovType(v)

TxtParliamentaryRepublic ==
    <<"P", "a", "r", "l", "i", "a", "m", "e", "n", "t", "a", "r", "y", " ",
      "R", "e", "p", "u", "b", "l", "i", "c">>

TxtAbsoluteMonarchy ==
    <<"A", "b", "s", "o", "l", "u", "t", "e", " ", "M", "o", "n", "a", "r", "c", "h", "y">>

TxtRepublicDemocracy ==
    <<"R", "e", "p", "u", "b", "l", "i", "c", " ", "D", "e", "m", "o", "c", "r", "a", "c", "y">>

TxtOtherTerritory ==
    <<"O", "t", "h", "e", "r", " ", "T", "e", "r", "r", "i", "t", "o", "r", "y">>

TxtCommunistTheocracy ==
    <<"C", "o", "m", "m", "u", "n", "i", "s", "t", " ", "T", "h", "e", "o", "c", "r", "a", "c", "y">>

\* -------------------------------------------------------------------------
\* C11: a cell whose stripped text reaches the government-type rule is
\* assigned the code of the first word of Democracy 0, Republic 1,
\* Theocracy 2, Monarchy 3, Communist 4, Territory 5, Other 6 that it
\* contains, so a text with several of them gets the lowest code;
\* 'Parliamentary Republic' is cleaned to 1, 'Absolute Monarchy' to 3,
\* 'Republic Democracy' to 0, 'Other Territory' to 5 and 'Communist
\* Theocracy' to 2.  The named texts are checked from the visit of the cell
\* on, the general statement when data_cleaner has returned.
\* -------------------------------------------------------------------------
C11_FirstGovCode ==
    \A idx \in DOMAIN df : \A c \in ColSet(cat) :
        CellDone(idx, c) /\ raw[idx][c].k = "str" =>
            /\ raw[idx][c].s = TxtParliamentaryRepublic => df[idx][c] = Num(1, 0)
            /\ raw[idx][c].s = TxtAbsoluteMonarchy => df[idx][c] = Num(3, 0)
            /\ raw[idx][c].s = TxtRepublicDemocracy => df[idx][c] = Num(0, 0)
            /\ raw[idx][c].s = TxtOtherTerritory => df[idx][c] = Num(5, 0)
            /\ raw[idx][c].s = TxtCommunistTheocracy => df[idx][c] = Num(2, 0)
            /\ pc = "cleaned" /\ ReachesGov(raw[idx][c].s, variant) =>
                  \A i \in 1..7 :
                      /\ Contains(StripUnits(raw[idx][c].s), GovTypes[i])
                      /\ \A j \in 1..(i - 1) : ~Contains(StripUnits(raw[idx][c].s), GovTypes[j])
                      => df[idx][c] = Num(i - 1, 0)

C11_Witness ==
    \E idx \in DOMAIN df :
        /\ IsDemographics
        /\ pc = "cleaned"
        /\ raw[idx]["Birth_Rate"] = Str(TxtRepublicDemocracy)
        /\ df[idx]["Birth_Rate"] = Num(0, 0)

\* the latest recorded visit was made by the step into this state
JustVisited ==
    /\ pc = "clean"
    /\ visits # <<>>
    /\ visits[Len(visits)].col = cat[ci]
    /\ visits[Len(visits)].idx = ri - 1

\* -------------------------------------------------------------------------
\* C12: a target cell whose raw value float() accepts (a numeral text, 'inf',
\* or a value that is already a number) holds exactly that float once its
\* loop body has run: '5' is 5.0, '2.5' is 2.5, '50' is 50.0, 1000000 stays
\* 1000000; the only branch that ran on it is the first try (or none, for a
\* missing value), never a strip step or a repair rule.  The named values
\* are checked from the visit of the cell on, the general statement when
\* data_cleaner has returned, the branch in the state after each visit.
\* -------------------------------------------------------------------------
C12_DirectFloatExact ==
    /\ \A idx \in DOMAIN df : \A c \in ColSet(cat) :
          CellDone(idx, c) =>
              /\ \A n \in Numerals : raw[idx][c] = Str(n.txt) => df[idx][c] = Num(n.m, n.e)
              /\ raw[idx][c] = Str(TxtPop50) => df[idx][c] = Num(50, 0)
              /\ raw[idx][c].k = "num" => df[idx][c] = raw[idx][c]
              /\ pc = "cleaned" /\ Float(raw[idx][c]).k # "err" => df[idx][c] = Float(raw[idx][c])
    /\ JustVisited =>
          LET last == visits[Len(visits)]
          IN  Float(raw[last.idx][last.col]).k # "err" => last.branch \in {"float", "null"}

C12_Witness ==
    \E idx \in DOMAIN df :
        /\ IsDemographics
        /\ pc = "cleaned"
        /\ raw[idx]["Birth_Rate"] = Str(<<"2", ".", "5">>)
        /\ df[idx]["Birth_Rate"] = Num(25, -1)
        /\ \E i \in 1..Len(visits) :
              visits[i].idx = idx /\ visits[i].col = "Birth_Rate" /\ visits[i].branch = "float"

Txt12Comma345 == <<"1", "2", ",", "3", "4", "5">>

Comma == <<",">>

\* -------------------------------------------------------------------------
\* C13: a text cell that contains commas and is a numeral once the commas
\* are deleted (so it holds no magnitude, percentage, sentinel or government
\* marker) is cleaned to that numeral: '12,345' becomes 12345, '5,' becomes
\* 5 and '2.5,' becomes 2.5.  The named texts are checked from the visit of
\* the cell on, the general statement when data_cleaner has returned.
\* -------------------------------------------------------------------------
C13_CommasDeleted ==
    \A idx \in DOMAIN df : \A c \in ColSet(cat) :
        /\ CellDone(idx, c)
        /\ raw[idx][c].k = "str"
        => /\ /\ pc = "cleaned"
              /\ Contains(raw[idx][c].s, Comma)
              /\ ParseFloat(Remove(raw[idx][c].s, Comma)).k = "num"
              => df[idx][c] = ParseFloat(Remove(raw[idx][c].s, Comma))
           /\ raw[idx][c].s = Txt12Comma345 => df[idx][c] = Num(12345, 0)
           /\ \A n \in Numerals :
                 raw[idx][c].s \in {n.txt \o Comma, Comma \o n.txt} => df[idx][c] = Num(n.m, n.e)

C13_Witness ==
    \E idx \in DOMAIN df :
        /\ IsDemographics
        /\ pc = "cleaned"
        /\ raw[idx]["Birth_Rate"] = Str(Txt12Comma345)
        /\ df[idx]["Birth_Rate"] = Num(12345, 0)

\* the orders in which the five strip steps can be applied: p[n] is the
\* position in StripPatterns of the n-th step
StripOrders == {p \in [1..5 -> 1..5] : \A i, j \in 1..5 : i # j => p[i] # p[j]}

PatternsIn(p) == [n \in 1..5 |-> StripPatterns[p[n]]]

\* ' sq km' (step 2 of data_cleaner) is stripped before ' km' (step 3)
SqKmBeforeKm(p) == (CHOOSE n \in 1..5 : p[n] = 2) < (CHOOSE n \in 1..5 : p[n] = 3)

\* df["Total_Population"][idx] as the loop body of column c read it
PopAtVisit(idx, c) ==
    IF ~HasPop THEN NaN
    ELSE IF ColPos("Total_Population") < ColPos(c) THEN df[idx]["Total_Population"]
    ELSE raw[idx]["Total_Population"]

\* the value data_cleaner would return for a text cell if its strip steps
\* ran in the order p
CleanedUnder(p, val, hasPop, pop, variant_) ==
    LET o == IF Float(val).k # "err" THEN Wrote("float", Float(val))
             ELSE RepairStripped(StripAll(val.s, PatternsIn(p)), hasPop, pop, variant_)
    IN  IF o.write THEN o.val ELSE ToNumeric(val)

\* the pattern lists of the orders with ' sq km' before ' km', and of the
\* orders with ' km' first
ListsSqKmFirst == {PatternsIn(q) : q \in {r \in StripOrders : SqKmBeforeKm(r)}}

OrdersKmFirst == {q \in StripOrders : ~SqKmBeforeKm(q)}

TxtSqKm == <<" ", "s", "q", " ", "k", "m">>

StripsSomething(t) == \E i \in 1..5 : Contains(t, StripPatterns[i])

\* -------------------------------------------------------------------------
\* C14 (as claimed): every order of the five strip steps gives the cleaned
\* value that data_cleaner's order gives.
\* -------------------------------------------------------------------------
C14_AnyStripOrder ==
    \A idx \in DOMAIN df : \A c \in ColSet(cat) :
        pc = "cleaned" /\ run = 1 /\ raw[idx][c].k = "str" /\ StripsSomething(raw[idx][c].s) =>
            \A p \in StripOrders :
                df[idx][c] = CleanedUnder(p, raw[idx][c], HasPop, PopAtVisit(idx, c), variant)

\* -------------------------------------------------------------------------
\* C14 (amended): for a text in which the markers occur whole (a numeral,
\* with or without commas, followed by markers, none interrupted by another)
\* every order of the five strip steps that strips ' sq km' before ' km'
\* leaves the text that data_cleaner's order leaves, and so gives the
\* cleaned value that data_cleaner's order gives; an order that
\* strips ' km' first does not: 'N sq km' is cleaned to N by data_cleaner,
\* and with ' km' stripped first it is left as 'N sq' and ends missing.
\* -------------------------------------------------------------------------
C14_SqKmBeforeKm ==
    \A idx \in DOMAIN df : \A c \in ColSet(cat) :
        pc = "cleaned" /\ run = 1 /\ raw[idx][c].k = "str" /\ StripsSomething(raw[idx][c].s) =>
            /\ df[idx][c] = CleanedUnder([n \in 1..5 |-> n], raw[idx][c], HasPop,
                                          PopAtVisit(idx, c), variant)
            /\ LET v == StripUnits(raw[idx][c].s)
               IN  \A pats \in ListsSqKmFirst : StripAll(raw[idx][c].s, pats) = v
            /\ \A n \in Numerals :
                  raw[idx][c].s = n.txt \o TxtSqKm =>
                      /\ df[idx][c] = Num(n.m, n.e)
                      /\ \A p \in OrdersKmFirst :
                            CleanedUnder(p, raw[idx][c], HasPop, PopAtVisit(idx, c), variant) = NaN

C14_Witness ==
    \E idx \in DOMAIN df :
        /\ IsDemographics
        /\ pc = "cleaned"
        /\ run = 1
        /\ raw[idx]["Birth_Rate"] = Str(<<"5">> \o TxtSqKm)
        /\ df[idx]["Birth_Rate"] = Num(5, 0)

\* the value the rules after the percentage rule give to the stripped text
\* v: sentinel, then government type, then float(v); NaN when none resolves
LaterRulesValue(v) ==
    IF IsSentinel(v) THEN NaN
    ELSE IF IsGovType(v) THEN Num(GovCode(v), 0)
    ELSE IF ParseFloat(v).k = "err" THEN NaN
    ELSE ParseFloat(v)

\* -------------------------------------------------------------------------
\* C15 (as claimed): in a table without a Total_Population column a cell
\* that the first data_cleaner call visits and whose stripped text contains '(percentage)' (and not 'illion') is not
\* handled by the percentage rule: nothing is printed, the cell is decided
\* by the sentinel, government and direct-parse rules in that order, no
\* error escapes data_cleaner, and when data_cleaner returns the cell holds
\* the value of the first of these rules that matches, or is missing.
\* -------------------------------------------------------------------------
C15_PercentageSkippedWithoutPop ==
    ~HasPop /\ run = 1 =>
        /\ \A i \in 1..Len(visits) :
              LET val == raw[visits[i].idx][visits[i].col]
              IN  /\ val.k = "str"
                  /\ Contains(StripUnits(val.s), PercentageTest)
                  /\ ~Contains(StripUnits(val.s), Illion)
                  => /\ visits[i].branch \in {"sentinel", "gov", "direct"}
                     /\ stdout = <<>>
                     /\ pc # "raised"
                     /\ pc = "cleaned" =>
                           df[visits[i].idx][visits[i].col] = LaterRulesValue(StripUnits(val.s))

\* the rules in the order of precedence, and the test of each on the
\* stripped text v; the direct parse is the else branch and has no test
RuleOrder == <<"illion", "percentage", "sentinel", "gov", "direct">>

RuleMatches(r, v) ==
    IF r = "illion" THEN Contains(v, Illion)
    ELSE IF r = "percentage"
         THEN Contains(v, PercentageTest) /\ (variant = "clean_data" => HasPop)
    ELSE IF r = "sentinel"
         THEN \/ Contains(v, <<"N", "E", "G", "L">>)
              \/ Contains(v, <<"n", "e", "g", "l", "i", "g", "i", "b", "l", "e">>)
              \/ Contains(v, <<"I", "l", "e", " ", "A", "m", "s", "t", "e", "r", "d", "a", "m">>)
    ELSE IF r = "gov" THEN \E g \in 1..7 : Contains(v, GovTypes[g])
    ELSE TRUE

TxtNegligibleMillion ==
    <<"n", "e", "g", "l", "i", "g", "i", "b", "l", "e", " ", "m", "i", "l", "l", "i", "o", "n">>

TxtNEGL == <<"N", "E", "G", "L">>

\* -------------------------------------------------------------------------
\* C16: for a text that float() rejects, the rule that runs on the stripped
\* text is the first of 'illion', '(percentage)', sentinel, government
\* type, direct parse whose test matches; no other rule runs on it, also
\* when the rule that ran failed.  'negligible million' is handled by the
\* 'illion' rule (which fails and writes nothing), 'NEGL' followed by
\* 'Parliamentary Republic' by the sentinel rule (missing, not 1).  Checked
\* in the state after each visit of the first data_cleaner call.
\* -------------------------------------------------------------------------
C16_FirstMatchingRule ==
    run = 1 /\ JustVisited =>
        \A i \in {Len(visits)} :
            LET val == raw[visits[i].idx][visits[i].col]
                v == StripUnits(val.s)
            IN  val.k = "str" /\ ParseFloat(val.s).k = "err" =>
                    /\ \A n \in 1..5 :
                          /\ RuleMatches(RuleOrder[n], v)
                          /\ \A k \in 1..(n - 1) : ~RuleMatches(RuleOrder[k], v)
                          => visits[i].branch = RuleOrder[n]
                    /\ val.s = TxtNegligibleMillion =>
                          visits[i].branch = "illion" /\ ~visits[i].write
                    /\ val.s = TxtNEGL \o TxtParliamentaryRepublic =>
                          /\ visits[i].branch = "sentinel"
                          /\ pc # "done" => df[visits[i].idx][visits[i].col] = NaN

C16_Witness ==
    \E i \in 1..Len(visits) :
        /\ run = 1
        /\ pc = "cleaned"
        /\ raw[visits[i].idx][visits[i].col] = Str(TxtNegligibleMillion)
        /\ visits[i].branch = "illion"
        /\ ~visits[i].write

\* the loop body has run on cell (idx, c) in the current data_cleaner call
\* before the n-th recorded visit
VisitedBefore(idx, c, n) ==
    \E j \in 1..(n - 1) : visits[j].idx = idx /\ visits[j].col = c

\* -------------------------------------------------------------------------
\* C17 (as claimed): in a data_cleaner call the conversion of a column
\* comes after the visit of its last cell and before the first visit of the
\* next column: when a column has been passed every one of its cells has
\* been visited, when a cell of a later column is visited every earlier
\* column holds no text any more, and the conversion always takes place (it
\* does not raise) and leaves every cell that no rule resolved missing.
\* -------------------------------------------------------------------------
C17_CoercionAfterColumn ==
    pc \in {"clean", "cleaned", "raised"} =>
        /\ \A c \in ColSet(cat) : \A idx \in DOMAIN df :
              ColPos(c) < ci => VisitedBefore(idx, c, Len(visits) + 1)
        /\ \A i \in 1..Len(visits) :
              /\ ColPos(visits[i].col) <= ci
              /\ \A c \in ColSet(cat) : \A idx \in DOMAIN df :
                    ColPos(c) < ColPos(visits[i].col) =>
                        /\ VisitedBefore(idx, c, i)
                        /\ df[idx][c].k # "str"
              /\ ~visits[i].write /\ ColPos(visits[i].col) < ci =>
                    df[visits[i].idx][visits[i].col] = NaN
        /\ pc # "raised"

\* every cell of every target column has been visited in the current
\* data_cleaner call and every target column has been converted
NormalizationFinished ==
    /\ \A c \in ColSet(cat) : \A idx \in DOMAIN df :
          /\ VisitedBefore(idx, c, Len(visits) + 1)
          /\ df[idx][c].k # "str"
    /\ ci = Len(cat) + 1

\* -------------------------------------------------------------------------
\* C18: the override list is applied to a table only when the
\* normalization of all its target columns has finished, and once it has
\* been applied no step of data_cleaner (no visit, no conversion, no new
\* call) runs on the table again: the only step after clean_outliers stores
\* the table as it is, and a stored table never changes.  So an override can
\* blank a value the normalizer wrote, and a blanked cell is not normalized
\* again.
\* -------------------------------------------------------------------------
C18_OverridesAfterNormalization ==
    [][/\ pc' = "done" => (pc = "cleaned" /\ (cat # <<>> => NormalizationFinished))
       /\ pc = "done" =>
             /\ pc' \in {"load", "returned"}
             /\ datasets' = Append(datasets, [columns |-> columns, rows |-> df])
       /\ \A k \in 1..Len(datasets) : datasets'[k] = datasets[k]]_vars

C18_Witness ==
    \E idx \in DOMAIN df :
        /\ IsDemographics
        /\ pc = "done"
        /\ HasPop
        /\ raw[idx]["Birth_Rate"].k = "str"
        /\ before[idx]["Birth_Rate"].k = "num"
        /\ df[idx]["Birth_Rate"] = NaN
        /\ df[idx]["Total_Population"].k = "num"
        /\ \E i \in 1..Len(visits) :
              visits[i].idx = idx /\ visits[i].col = "Birth_Rate" /\ visits[i].write

\* the topic table (CSV file) a column comes from
TopicOf(c) == IF c = "electricity_access_percent" THEN "energy" ELSE "demographics"

\* -------------------------------------------------------------------------
\* C19 (as claimed): every table handed to a join on Country is a table
\* that data_cleaner and clean_outliers have already cleaned and stored;
\* while a table is cleaned the tables still to be cleaned are as read and
\* no rule reads a cell of another topic table: the percentage rule, the
\* only one that reads a second cell (Total_Population), runs only on
\* columns of the topic table that holds Total_Population.
\* -------------------------------------------------------------------------
C19_CleanedBeforeJoin ==
    /\ \A k \in 1..Len(joinInputs) : \E j \in 1..Len(datasets) : datasets[j] = joinInputs[k]
    /\ \A k \in 1..Len(pending) : pending[k] = EnergyTable
    /\ \A i \in 1..Len(visits) :
          visits[i].branch = "percentage" =>
              TopicOf(visits[i].col) = TopicOf("Total_Population")

CountriesOf(rows) == {rows[idx]["Country"] : idx \in DOMAIN rows}

\* -------------------------------------------------------------------------
\* C20: in clean_data.py the table has, during and after data_cleaner and,
\* with an empty deletion list, after clean_outliers, the index labels and
\* the columns of the raw table, and every row keeps its Country: no row and
\* no column is added or removed, and the set of Country values of the
\* table load_and_clean_separate stores equals that of the raw table.
\* -------------------------------------------------------------------------
C20_SameRowsAndColumns ==
    /\ variant = "clean_data"
    /\ pc \in {"clean", "cleaned", "done"}
    /\ pc = "done" => del_list = <<>>
    => /\ DOMAIN df = DOMAIN raw
       /\ Len(columns) = Cardinality(ColSet(columns))
       /\ \A idx \in DOMAIN raw :
             /\ ColSet(columns) = DOMAIN raw[idx]
             /\ DOMAIN df[idx] = DOMAIN raw[idx]
             /\ df[idx]["Country"] = raw[idx]["Country"]
       /\ CountriesOf(df) = CountriesOf(raw)

C20_Witness ==
    /\ variant = "clean_data"
    /\ pc = "done"
    /\ del_list = <<>>
    /\ IsDemographics
    /\ Cardinality(DOMAIN df) = 2
    /\ \E idx \in DOMAIN df : df[idx]["Birth_Rate"] # raw[idx]["Birth_Rate"]
    /\ \E idx \in DOMAIN df : df[idx]["Country"] # Str(EuropeanUnion)

\* -------------------------------------------------------------------------
\* C21: a Cleaned Table returned by load_and_clean_separate is never mutated
\* by the consumers: once a consumer module has prepared its data, every
\* table holds the same columns and the same cells as when the cleaner
\* returned it.
\* -------------------------------------------------------------------------
C21_ConsumersNeverMutate ==
    cleaned_data # <<>> => cleaned_data = datasets

\* -------------------------------------------------------------------------
\* C22: the cleaner is a pure function: the table handed to data_cleaner
\* holds the same cell values when the call has returned as when it was
\* made, and likewise the table handed to clean_outliers.  (df is the
\* DataFrame object the caller passed: both functions assign into it and
\* return it; raw and before are its contents at the two calls.)
\* -------------------------------------------------------------------------
C22_ArgumentUnchanged ==
    /\ (pc = "cleaned" /\ run = 1) => df = raw
    /\ pc = "done" => df = before

\* -------------------------------------------------------------------------
\* C23: a target cell that is missing in the raw table is missing in the
\* table data_cleaner works on at every later moment; its visit takes the
\* null path: no repair rule runs and nothing is written.
\* -------------------------------------------------------------------------
C23_NullStaysMissing ==
    /\ \A idx \in DOMAIN df : \A c \in ColSet(cat) :
          IsMissing(raw[idx][c]) => IsMissing(df[idx][c])
    /\ \A i \in 1..Len(visits) :
          IsMissing(raw[visits[i].idx][visits[i].col])
              => visits[i].branch = "null" /\ ~visits[i].write

C23_Witness ==
    \E idx \in DOMAIN df :
        /\ HasPop
        /\ pc = "cleaned"
        /\ IsMissing(raw[idx]["Total_Population"])
        /\ IsMissing(df[idx]["Total_Population"])
        /\ \E i \in 1..Len(visits) :
              /\ visits[i].idx = idx
              /\ visits[i].col = "Total_Population"
              /\ visits[i].branch = "null"

\* the orders in which the columns of a column list can be handed over
ColumnOrders(cols) ==
    {p \in [1..Len(cols) -> ColSet(cols)] : \A i, j \in 1..Len(cols) : p[i] = p[j] => i = j}

\* every raw Total_Population value is missing or accepted by float()
PopulationParses ==
    /\ HasPop
    /\ \A idx \in DOMAIN raw : Float(raw[idx]["Total_Population"]).k # "err"

\* -------------------------------------------------------------------------
\* C24: if in every row the raw Total_Population is missing or parses
\* directly as a float, data_cleaner gives the same outcome for every order
\* of the target-column list: the table the call on the raw table returns
\* is the one every other order returns (and when the call raises, it
\* raises under every order).
\* -------------------------------------------------------------------------
C24_ColumnOrderIrrelevant ==
    (run = 1 /\ pc \in {"cleaned", "raised"} /\ PopulationParses)
        => \A p \in ColumnOrders(cat) :
               LET r == data_cleaner(raw, p, HasPop, variant)
               IN  IF pc = "raised" THEN r.raised ELSE ~r.raised /\ r.rows = df

C24_Witness ==
    \E idx \in DOMAIN df :
        /\ run = 1
        /\ pc = "cleaned"
        /\ columns = LayoutPopLast
        /\ raw[idx]["Total_Population"] = Str(TxtPop50)
        /\ raw[idx]["Birth_Rate"] = Str(TxtPercent5)
        /\ df[idx]["Birth_Rate"] = Num(2, 0)
        /\ data_cleaner(raw, <<"Total_Population", "Birth_Rate">>, HasPop, variant).rows = df

\* the numeral N of a cell whose stripped text is 'N (percentage)'
IsPercentOf(v, n) == v.k = "str" /\ StripUnits(v.s) = n.txt \o PercentageStrip

\* the visit of cell (idx, c) took the percentage branch and wrote nothing
PercentageFailedAt(idx, c) ==
    \E i \in 1..Len(visits) :
        /\ visits[i].idx = idx
        /\ visits[i].col = c
        /\ visits[i].branch = "percentage"
        /\ ~visits[i].write

\* -------------------------------------------------------------------------
\* C25 (clean_data.py): in a row whose raw Total_Population is text that
\* float() rejects and a repair rule resolves ('1.2 million'), a cell
\* 'N (percentage)' of another column holds the derived count when
\* Total_Population stands before that column in the target-column list;
\* when it stands after, the percentage branch reads the raw text, fails
\* and the cell is missing when data_cleaner returns.  The two kinds of
\* order give different tables.
\* -------------------------------------------------------------------------
C25_PopulationOrderMatters ==
    (variant = "clean_data" /\ run = 1 /\ pc = "cleaned" /\ HasPop)
        => \A idx \in DOMAIN df : \A c \in ColSet(cat) \ {"Total_Population"} : \A n \in Numerals :
               /\ Float(raw[idx]["Total_Population"]).k = "err"
               /\ df[idx]["Total_Population"].k = "num"
               /\ IsPercentOf(raw[idx][c], n)
               => /\ IF ColPos("Total_Population") < ColPos(c)
                     THEN IsCount(df[idx][c], n.txt, df[idx]["Total_Population"])
                     ELSE IsMissing(df[idx][c]) /\ PercentageFailedAt(idx, c)
                  /\ \A p, q \in ColumnOrders(cat) :
                        (\E i, j \in 1..Len(cat) :
                            /\ p[i] = "Total_Population" /\ p[j] = c /\ i < j
                            /\ q[i] = c /\ q[j] = "Total_Population")
                        => LET early == data_cleaner(raw, p, HasPop, variant).rows
                               late == data_cleaner(raw, q, HasPop, variant).rows
                           IN  /\ IsCount(early[idx][c], n.txt, df[idx]["Total_Population"])
                               /\ IsMissing(late[idx][c])
                               /\ early # late

C25_Witness ==
    \E idx \in DOMAIN df :
        /\ variant = "clean_data"
        /\ run = 1
        /\ pc = "cleaned"
        /\ columns = LayoutPopLast
        /\ raw[idx]["Total_Population"] = Str(TxtPopMillion)
        /\ df[idx]["Total_Population"] = Num(1200000, 0)
        /\ raw[idx]["Birth_Rate"] = Str(TxtPercent5)
        /\ IsMissing(df[idx]["Birth_Rate"])
        /\ PercentageFailedAt(idx, "Birth_Rate")
        /\ data_cleaner(raw, <<"Total_Population", "Birth_Rate">>, HasPop,
                        variant).rows[idx]["Birth_Rate"] = Num(60000, 0)

\* -------------------------------------------------------------------------
\* C26: a cell 'N (percentage)' in a row whose Total_Population is missing
\* is missing once data_cleaner has returned, and data_cleaner does not
\* raise on it: the failure of the derived-value computation stays inside
\* the branch and the column conversion absorbs the cell.
\* -------------------------------------------------------------------------
C26_PercentageOfMissingPopulation ==
    \A idx \in DOMAIN df : \A c \in ColSet(cat) \ {"Total_Population"} : \A n \in Numerals :
        /\ HasPop
        /\ run = 1
        /\ IsMissing(raw[idx]["Total_Population"])
        /\ IsPercentOf(raw[idx][c], n)
        => /\ ~(pc = "raised" /\ cat[ci] = c)
           /\ pc = "cleaned" => IsMissing(df[idx][c]) /\ PercentageFailedAt(idx, c)

\* the text val is rejected by float(), its stripped form matches the
\* 'illion' test or, failing that, the '(percentage)' test, and what is
\* left after removing the marker is not a numeral
MatchedBranchFails(val) ==
    /\ val.k = "str"
    /\ ParseFloat(val.s).k = "err"
    /\ LET v == StripUnits(val.s)
       IN  IF RuleMatches("illion", v) THEN ParseFloat(Remove(v, Illion)).k = "err"
           ELSE /\ RuleMatches("percentage", v)
                /\ ParseFloat(Remove(v, PercentageStrip)).k = "err"

\* -------------------------------------------------------------------------
\* C27: when the stripped text of a cell matches the 'illion' or the
\* '(percentage)' test and the rest is not a numeral, the matched branch is
\* the only rule that runs and it writes nothing: the cell holds its raw
\* text after the visit, data_cleaner does not raise on its column, and
\* the cell is missing (never a government code) when data_cleaner returns.
\* -------------------------------------------------------------------------
C27_NoFallThrough ==
    /\ (run = 1 /\ JustVisited) =>
          LET last == visits[Len(visits)]
              val == raw[last.idx][last.col]
          IN  MatchedBranchFails(val) =>
                  /\ last.branch = (IF RuleMatches("illion", StripUnits(val.s))
                                    THEN "illion" ELSE "percentage")
                  /\ ~last.write
                  /\ df[last.idx][last.col] = val
    /\ (run = 1 /\ pc \in {"cleaned", "raised"}) =>
          \A idx \in DOMAIN df : \A c \in ColSet(cat) :
              MatchedBranchFails(raw[idx][c]) =>
                  /\ ~(pc = "raised" /\ cat[ci] = c)
                  /\ pc = "cleaned" => IsMissing(df[idx][c])

\* (country, column) is a pair of the clean list
InCleanList(v, c) == \E i \in 1..Len(CleanList) : v = Str(CleanList[i][1]) /\ c = CleanList[i][2]

\* -------------------------------------------------------------------------
\* C28: clean_outliers leaves every other cell as it was: a cell of the
\* table it returns differs from its value before the call only if its
\* (Country, column) is a pair of the clean list, a row is gone only if its
\* Country is in the deletion list, and a clean-list pair whose column the
\* table does not have adds no column.
\* -------------------------------------------------------------------------
C28_OverridesTouchNothingElse ==
    pc = "done" =>
        /\ \A idx \in DOMAIN df :
              /\ DOMAIN df[idx] = DOMAIN before[idx]
              /\ \A c \in DOMAIN df[idx] \cap DOMAIN before[idx] :
                    df[idx][c] # before[idx][c] => InCleanList(before[idx]["Country"], c)
        /\ \A idx \in DOMAIN before \ DOMAIN df : InDelList(before[idx]["Country"])
        /\ \A i \in 1..Len(CleanList) :
              (\E idx \in DOMAIN before : CleanList[i][2] \notin DOMAIN before[idx])
                  => CleanList[i][2] \notin ColSet(columns)

\* the Country value v is the country of some clean-list pair
IsCleanListCountry(v) == \E i \in 1..Len(CleanList) : v = Str(CleanList[i][1])

\* -------------------------------------------------------------------------
\* C29: override and deletion entries match the Country value exactly and
\* case-sensitively.  A row whose Country equals the country of no entry
\* ('European Union' against the entry 'EUROPEAN UNION') is returned by
\* clean_outliers as it was, so entries that match no row change nothing;
\* every row whose Country equals the country of a clean-list pair has that
\* pair's column blanked, and every row whose Country is in the deletion
\* list is gone, however many rows carry that Country.
\* -------------------------------------------------------------------------
C29_ExactCountryMatch ==
    pc = "done" =>
        /\ \A idx \in DOMAIN before :
              ~IsCleanListCountry(before[idx]["Country"]) /\ ~InDelList(before[idx]["Country"])
                  => idx \in DOMAIN df /\ df[idx] = before[idx]
        /\ \A idx \in DOMAIN df : \A i \in 1..Len(CleanList) :
              /\ before[idx]["Country"] = Str(CleanList[i][1])
              /\ CleanList[i][2] \in DOMAIN before[idx]
              => IsMissing(df[idx][CleanList[i][2]])
        /\ \A idx \in DOMAIN before : InDelList(before[idx]["Country"]) => idx \notin DOMAIN df

\* the visits of the current call on which no rule wrote a value
UnresolvedVisits == {i \in 1..Len(visits) : ~visits[i].write /\ visits[i].branch # "null"}

OtherVariant == IF variant = "clean_data" THEN "Clean_Data" ELSE "clean_data"

====
